---- MODULE Spec2Model ----
(***************************************************************************)
(* ripbox: the interactive batch downloader (src/ripbox/cli.py) with its   *)
(* executor (src/ripbox/downloader.py), option builders                    *)
(* (src/ripbox/ytdlp_opts.py), cookie candidates (src/ripbox/cookies.py)   *)
(* and output-path resolution (src/ripbox/paths.py).                       *)
(*                                                                         *)
(* main() is one sequential process.  Every blocking call (a prompt, the   *)
(* URL pre-check, one run_download) is one action; the action carries the  *)
(* whole of the code that runs until the next blocking call.               *)
(***************************************************************************)
EXTENDS Naturals, Sequences, FiniteSets, TLC

----------------------------------------------------------------------------
(* Bounds of the model *)

\* longest URL list one input hands to a batch
MaxUrls == 2

\* longest list of export formats one batch runs
MaxFormats == 2

\* most components of a path typed at the folder prompt
MaxParts == 3

----------------------------------------------------------------------------
(* Python values *)

\* None of an Optional[str]
NoneStr == "<None>"

\* None of an Optional[Path] / Optional[list]
NoneSeq == <<"<None>">>

\* None of an Optional[dict]
NoneDict == [py_none |-> TRUE]

\* a key that a dict does not hold
Absent == "<absent>"

\* Python truthiness of an Optional[str]
Truthy(s) == s # NoneStr /\ s # ""

\* Python's `a or b` on Optional[str]
Or(a, b) == IF Truthy(a) THEN a ELSE b

----------------------------------------------------------------------------
(* src/ripbox/paths.py *)

\* Path.home() / "Downloads"
DownloadsBase == <<"home", "Downloads">>

\* what the user may type at the folder prompt: a path as its components
UserDirs ==
    { [is_absolute |-> FALSE, parts |-> <<>>],
      [is_absolute |-> FALSE, parts |-> <<"music">>],
      [is_absolute |-> TRUE,  parts |-> <<"tmp", "x">>] }

\* the latest call of resolve_output_dir made on its own: its input and
\* what it returned, raised and created (NoneDict: none yet)
VARIABLE resolved

\* Path(user_input): pathlib drops the "." components and keeps the ".." ones
Path(user_input) == SelectSeq(user_input.parts, LAMBDA c : c # ".")

\* resolve_output_dir: the directory it returns (and creates), or the
\* ValueError it raises
resolve_output_dir(user_input) ==
    IF user_input.parts = <<>> /\ ~user_input.is_absolute
      THEN [raised |-> FALSE, out_dir |-> DownloadsBase,
            created |-> {DownloadsBase}]
      ELSE IF user_input.is_absolute
             THEN [raised |-> TRUE, out_dir |-> NoneSeq, created |-> {}]
             ELSE [raised |-> FALSE, out_dir |-> DownloadsBase \o Path(user_input),
                   created |-> {DownloadsBase \o Path(user_input)}]

\* the directory a path denotes: each ".." leaves the directory before it
\* (the root is its own parent)
RECURSIVE Denotes(_)
Denotes(path) ==
    IF path = <<>> THEN <<>>
    ELSE LET parent == Denotes(SubSeq(path, 1, Len(path) - 1))
             last   == path[Len(path)]
         IN  IF last = ".."
               THEN IF parent = <<>> THEN <<>>
                    ELSE SubSeq(parent, 1, Len(parent) - 1)
               ELSE Append(parent, last)

----------------------------------------------------------------------------
(* src/ripbox/ytdlp_opts.py *)

\* cookie_sources(): the browser names, in order
cookie_sources ==
    << "firefox", "chromium", "chrome", "brave", "edge", "opera", "vivaldi" >>

\* build_base_opts: the keys of the options dict the attempt policy depends
\* on; cookie_exists is cookie_path.exists() at the time of the call
build_base_opts(out_dir, enable_cookies, cookie_exists) ==
    [ format               |-> "bv*+ba/b",
      merge_output_format  |-> "mp4",
      outtmpl              |-> [dir |-> out_dir, ext |-> "%(ext)s"],
      postprocessors       |-> Absent,
      cookiefile           |-> IF enable_cookies /\ cookie_exists
                                 THEN "cookies.txt" ELSE Absent,
      cookiesfrombrowser   |-> Absent ]

\* str.replace("%(ext)s", e) on the extension slot of outtmpl
ReplaceExt(outtmpl, e) ==
    IF outtmpl.ext = "%(ext)s" THEN [outtmpl EXCEPT !.ext = e] ELSE outtmpl

\* the latest call of build_opts_for_format made on its own: its base, its
\* format and the options it returned (NoneDict: none yet)
VARIABLE built

\* faulty variant: the mp3 branch leaves the merge container of the base in place
build_opts_for_format_Mp3KeepsMerge(base_opts, export_ext) ==
    IF export_ext = "mp3"
      THEN [base_opts EXCEPT !.format = "bestaudio/best",
                             !.postprocessors = "FFmpegExtractAudio"]
      ELSE [base_opts EXCEPT !.merge_output_format =
                                 IF export_ext \in {"mp4", "mkv", "mov"}
                                   THEN export_ext ELSE "mp4",
                             !.format = "bv*+ba/b",
                             !.outtmpl = ReplaceExt(@, IF export_ext \in {"mp4", "mkv", "mov"}
                                                         THEN export_ext ELSE "mp4"),
                             !.postprocessors = Absent]

\* build_opts_for_format: a copy of base_opts specialised to export_ext
build_opts_for_format(base_opts, export_ext) ==
    IF export_ext \in {"mp4", "mkv", "mov"}
      THEN [base_opts EXCEPT !.merge_output_format = export_ext,
                             !.format = "bv*+ba/b",
                             !.outtmpl = ReplaceExt(@, export_ext),
                             !.postprocessors = Absent]
      ELSE IF export_ext = "mp3"
             THEN [base_opts EXCEPT !.format = "bestaudio/best",
                                    !.merge_output_format = Absent,
                                    !.postprocessors = "FFmpegExtractAudio"]
             ELSE [base_opts EXCEPT !.merge_output_format = "mp4",
                                    !.format = "bv*+ba/b",
                                    !.outtmpl = ReplaceExt(@, "mp4"),
                                    !.postprocessors = Absent]

----------------------------------------------------------------------------
(* src/ripbox/cookies.py *)

\* faulty variant: the browsers are tried after the cookie file
build_cookie_attempts_FileThenBrowsers(base_with_cookies) ==
    (IF base_with_cookies.cookiefile # Absent
       THEN << [mode |-> <<"cookiefile">>, base |-> base_with_cookies] >>
       ELSE <<>>)
    \o [ i \in 1..Len(cookie_sources) |->
            [ mode |-> <<"browser", cookie_sources[i]>>,
              base |-> [base_with_cookies EXCEPT
                          !.cookiesfrombrowser = cookie_sources[i]] ] ]

\* build_cookie_attempts: the (mode, base) candidates of the sweep, in order;
\* a mode string "cookiefile" is <<"cookiefile">>, f"browser:{name}" is
\* <<"browser", name>>
build_cookie_attempts(base_with_cookies) ==
    IF base_with_cookies.cookiefile # Absent
      THEN << [mode |-> <<"cookiefile">>, base |-> base_with_cookies] >>
      ELSE [ i \in 1..Len(cookie_sources) |->
               [ mode |-> <<"browser", cookie_sources[i]>>,
                 base |-> [base_with_cookies EXCEPT
                             !.cookiesfrombrowser = cookie_sources[i]] ] ]

----------------------------------------------------------------------------
(* src/ripbox/downloader.py *)

\* the error text run_download gives an interrupted call
CANCELLED == "Cancelled by user"

MSG_NO_INFO == "No info extracted (download did not complete)."

MSG_NO_OUTPUT == "No output file was created (treating as failure)."

\* error texts the engine may log or raise with
TXT_PERMANENT == "Video unavailable. This video is private"

TXT_NETWORK == "Connection reset by peer"

TXT_AUTH == "Sign in to confirm your age"

\* DownloadResult(ok, error)
DownloadResult(ok, error) == [ok |-> ok, error |-> error]

\* the CaptureLogger that the latest run_download created: its last_error
VARIABLE logger

\* last_error of the CaptureLogger of the call before the latest, when
\* run_download is called on its own
VARIABLE stale

\* CaptureLogger.__init__: last_error of a new logger
CaptureLogger_init == NoneStr

\* CaptureLogger.error(msg): last_error afterwards
CaptureLogger_error(self, msg) == msg

\* last_error of a logger after the engine passed the texts msgs to error(),
\* one after the other
RECURSIVE LogAll(_, _)
LogAll(self, msgs) ==
    IF msgs = <<>> THEN self
    ELSE LogAll(CaptureLogger_error(self, Head(msgs)), Tail(msgs))

\* One call of the external engine, as run_download observes it:
\*   raised      what YoutubeDL(...)/extract_info raised ("none": returned)
\*   info_dict   extract_info returned a dict (else None)
\*   candidates  the output paths the returned info names
\*   on_disk     the files that exist after the call
\*   logged      the texts the engine passed to logger.error, in order
\*   exc_str     str(e) of the exception raised
EngineCall(raised, info_dict, candidates, on_disk, logged, exc_str) ==
    [ raised |-> raised, info_dict |-> info_dict, candidates |-> candidates,
      on_disk |-> on_disk, logged |-> logged, exc_str |-> exc_str ]

EngineCalls ==
    \* returned a dict whose output exists (an error may still have been logged)
    { EngineCall("none", TRUE, {"out.mp4"}, {"out.mp4"}, <<>>, NoneStr),
      EngineCall("none", TRUE, {NoneStr, "out.mp4", "tmp.part"}, {"out.mp4"},
                 <<TXT_AUTH>>, NoneStr) }
    \cup
    \* returned a dict none of whose candidates exists
    { EngineCall("none", TRUE, {"out.mp4"}, {"other.mp4"}, <<>>, NoneStr),
      EngineCall("none", TRUE, {NoneStr}, {}, <<TXT_PERMANENT>>, NoneStr) }
    \cup
    \* returned None (ignoreerrors): the error went to the logger, if anywhere
    { EngineCall("none", FALSE, {}, {}, l, NoneStr) :
        l \in { <<>>, <<TXT_AUTH>>, <<TXT_NETWORK>>, <<CANCELLED>> } }
    \cup
    \* raised
    { EngineCall("DownloadError", FALSE, {}, {}, <<>>, TXT_PERMANENT),
      EngineCall("DownloadError", FALSE, {}, {}, <<TXT_NETWORK>>, TXT_AUTH),
      EngineCall("Exception", FALSE, {}, {}, <<"">>, "") }
    \cup
    \* interrupted by the user
    { EngineCall("KeyboardInterrupt", FALSE, {}, {}, <<>>, NoneStr) }

\* faulty variant: one logger serves every call
NewLogger_Shared == logger

\* line 145: the logger of a call is a new CaptureLogger
NewLogger == CaptureLogger_init

\* logger.last_error when extract_info has returned or raised
LoggerAfter(e) == LogAll(NewLogger, e.logged)

\* faulty variant: the paths the engine names are taken to exist
collect_candidate_outputs_Unchecked(candidates, on_disk) ==
    { c \in candidates : Truthy(c) }

\* _existing_path over the candidates _collect_candidate_outputs gathers:
\* the candidates that exist on disk (None and "" are dropped)
collect_candidate_outputs(candidates, on_disk) ==
    { c \in candidates : Truthy(c) /\ c \in on_disk }

\* run_download: the DownloadResult of one engine call
run_download(e) ==
    LET last_error == LoggerAfter(e)
    IN  IF e.raised = "KeyboardInterrupt"
          THEN DownloadResult(FALSE, CANCELLED)
          ELSE IF e.raised # "none"
                 THEN DownloadResult(FALSE, Or(last_error, e.exc_str))
                 ELSE IF ~e.info_dict
                        THEN DownloadResult(FALSE, Or(last_error, MSG_NO_INFO))
                        ELSE IF collect_candidate_outputs(e.candidates, e.on_disk) # {}
                               THEN DownloadResult(TRUE, NoneStr)
                               ELSE DownloadResult(FALSE, Or(last_error, MSG_NO_OUTPUT))

----------------------------------------------------------------------------
(* url_checks, input_sources, formats: imported by cli.py *)

\* is_permanent_unavailable_error(err)
is_permanent_unavailable_error(err) == err \in { TXT_PERMANENT }

\* is_networkish_error(err)
is_networkish_error(err) == err \in { TXT_NETWORK }

\* the Failure Classifier's three categories
classify(err) ==
    IF is_permanent_unavailable_error(err) THEN "PermanentUnavailable"
    ELSE IF is_networkish_error(err) THEN "Network"
    ELSE "Unknown"

\* quick_url_check(url): (ok_url, why)
UrlVerdicts ==
    { [ok_url |-> TRUE, why |-> ""],
      [ok_url |-> FALSE, why |-> "unsupported scheme"] }

\* the URL lists an input may carry (a URL may be listed twice)
UrlLists ==
    { us \in { <<"u/a">>, <<"u/a", "u/b">>, <<"u/c", "u/a", "u/c">>,
               <<"u/a", "u/b", "u/c", "u/d">> } :
        Len(us) <= MaxUrls }

\* choose_input(ask): an object with reset, source, text, urls
Inputs ==
    { [reset |-> TRUE,  source |-> "paste", text |-> "reset", urls |-> <<>>],
      [reset |-> FALSE, source |-> "file",  text |-> "",      urls |-> <<>>],
      [reset |-> FALSE, source |-> "paste", text |-> "",      urls |-> <<>>],
      [reset |-> FALSE, source |-> "paste", text |-> "hello", urls |-> <<>>] }
    \cup
    { [reset |-> FALSE, source |-> src, text |-> "links", urls |-> us] :
        src \in {"paste", "file"}, us \in UrlLists }

\* choose_formats(ask): a non-empty list of distinct formats
ExportChoices ==
    { ex \in { <<"mp4">>, <<"mp3", "mkv">>,
               <<"mov", "mp3", "mp4">>, <<"mp3", "mp4", "mkv", "mov">> } :
        Len(ex) <= MaxFormats }

----------------------------------------------------------------------------
(* src/ripbox/cli.py: main() *)

VARIABLES
    pc,                  \* where main() is blocked: "input", "outdir", "formats",
                         \* "check", "nocookies", "locked", "sweep"; or "exited"
                         \* (main returned), "crashed" (an exception left main)
    last_out_dir,        \* sticky output directory (NoneSeq: None)
    last_exports,        \* sticky export list (NoneSeq: None)
    urls,                \* the batch's URL list
    idx,                 \* 1-based position of the URL being processed
    ei,                  \* 1-based position of export_ext in exports
    chosen_cookie_mode,  \* mode of the locked credential (NoneSeq: None)
    chosen_cookie_base,  \* base options of the locked credential (NoneDict: None)
    ok_urls, fail_urls, invalid_urls,
    url_failed,
    r0,                  \* result of the pair's no-cookies attempt
    attempts,            \* the sweep's candidates
    ai,                  \* 1-based position in attempts
    last_err,
    verdict,             \* (ok_url, why) of the latest quick_url_check
    cookie_exists,       \* environment: cookies.txt exists beside the program
    \* what an observer of the run has seen (not read by the program)
    eng,                 \* the engine call behind the latest run_download
    calls,               \* options passed to run_download for the current pair
    pair_lock,           \* chosen_cookie_base when the current pair started
    pair_status,         \* "none", "running", "ok", "failed"
    pair_results,        \* "ok"/"failed" of the current URL's exports so far
    reported,            \* error text of the pair's "Failed:" line
    printed_summary,     \* the summary printed for the current batch
    ciao,                \* the KeyboardInterrupt handler of main ran
    overwritten_lock,    \* the chosen_cookie_base that the batch start replaced
    fresh,               \* no batch has started since main() started or since
                         \* the latest reset
    last_op,             \* the step main() took last
    history              \* the pre-checks and executor calls of a scripted
                         \* batch, with their outcomes (kept by ScenarioSpec)

\* what an observer counts while one batch runs (kept by BatchSpec)
VARIABLES
    executed,            \* the calls of run_download the batch has made
    locked_failures,     \* the locked attempts of the batch that failed
    locks_set            \* the sweep calls of the batch that succeeded

tally == << executed, locked_failures, locks_set >>

vars ==
    << pc, last_out_dir, last_exports, urls, idx, ei, chosen_cookie_mode,
       chosen_cookie_base, ok_urls, fail_urls, invalid_urls, url_failed, r0,
       attempts, ai, last_err, verdict, cookie_exists, eng, calls, pair_lock,
       pair_status, pair_results, reported, printed_summary, ciao,
       overwritten_lock, fresh, last_op, logger, stale, history, resolved,
       built, tally >>

\* the current state as one record, so that a handler is a function of it
State ==
    [ pc |-> pc, last_out_dir |-> last_out_dir, last_exports |-> last_exports,
      urls |-> urls, idx |-> idx, ei |-> ei,
      chosen_cookie_mode |-> chosen_cookie_mode,
      chosen_cookie_base |-> chosen_cookie_base,
      ok_urls |-> ok_urls, fail_urls |-> fail_urls,
      invalid_urls |-> invalid_urls, url_failed |-> url_failed, r0 |-> r0,
      attempts |-> attempts, ai |-> ai, last_err |-> last_err,
      verdict |-> verdict,
      cookie_exists |-> cookie_exists, eng |-> eng,
      calls |-> calls, pair_lock |-> pair_lock, pair_status |-> pair_status,
      pair_results |-> pair_results,
      reported |-> reported, printed_summary |-> printed_summary,
      ciao |-> ciao, overwritten_lock |-> overwritten_lock, fresh |-> fresh,
      last_op |-> last_op,
      logger |-> logger ]

\* the program's variables take their values from the record t
Assign(t) ==
    /\ pc' = t.pc
    /\ last_out_dir' = t.last_out_dir
    /\ last_exports' = t.last_exports
    /\ urls' = t.urls
    /\ idx' = t.idx
    /\ ei' = t.ei
    /\ chosen_cookie_mode' = t.chosen_cookie_mode
    /\ chosen_cookie_base' = t.chosen_cookie_base
    /\ ok_urls' = t.ok_urls
    /\ fail_urls' = t.fail_urls
    /\ invalid_urls' = t.invalid_urls
    /\ url_failed' = t.url_failed
    /\ r0' = t.r0
    /\ attempts' = t.attempts
    /\ ai' = t.ai
    /\ last_err' = t.last_err
    /\ verdict' = t.verdict
    /\ cookie_exists' = t.cookie_exists
    /\ eng' = t.eng
    /\ calls' = t.calls
    /\ pair_lock' = t.pair_lock
    /\ pair_status' = t.pair_status
    /\ pair_results' = t.pair_results
    /\ reported' = t.reported
    /\ printed_summary' = t.printed_summary
    /\ ciao' = t.ciao
    /\ overwritten_lock' = t.overwritten_lock
    /\ fresh' = t.fresh
    /\ last_op' = t.last_op
    /\ logger' = t.logger

\* the next state is the record t
Becomes(t) == Assign(t) /\ UNCHANGED <<stale, history, resolved, built, tally>>

\* main() after construction: lines 29-36, blocked in choose_input
Init ==
    /\ pc = "input"
    /\ last_out_dir = NoneSeq
    /\ last_exports = NoneSeq
    /\ urls = <<>>
    /\ idx = 0
    /\ ei = 0
    /\ chosen_cookie_mode = NoneSeq
    /\ chosen_cookie_base = NoneDict
    /\ ok_urls = <<>>
    /\ fail_urls = <<>>
    /\ invalid_urls = <<>>
    /\ url_failed = FALSE
    /\ r0 = NoneDict
    /\ attempts = <<>>
    /\ ai = 0
    /\ last_err = NoneStr
    /\ verdict = NoneDict
    /\ cookie_exists \in BOOLEAN
    /\ eng = NoneDict
    /\ calls = <<>>
    /\ pair_lock = NoneDict
    /\ pair_status = "none"
    /\ pair_results = <<>>
    /\ reported = NoneStr
    /\ printed_summary = NoneDict
    /\ ciao = FALSE
    /\ overwritten_lock = NoneDict
    /\ fresh = TRUE
    /\ last_op = "start"
    /\ logger = NoneStr
    /\ stale = NoneStr
    /\ history = <<>>
    /\ resolved = NoneDict
    /\ built = NoneDict
    /\ executed = 0
    /\ locked_failures = 0
    /\ locks_set = 0

----------------------------------------------------------------------------
(* The code between two blocking calls, as functions of the state record *)

\* the URL and the export format being processed
CurUrl(s) == s.urls[s.idx]

CurExt(s) == s.last_exports[s.ei]

\* lines 185-200: the summary is printed and the while loop goes back to
\* choose_input
PrintSummary(s) ==
    [s EXCEPT !.printed_summary =
                  [ ok |-> s.ok_urls, failed |-> s.fail_urls,
                    invalid |-> s.invalid_urls, total |-> Len(s.urls) ],
              !.pc = "input"]

\* faulty variant: a URL that failed ends the batch
NextUrl_AbortOnFailure(s) ==
    IF s.idx < Len(s.urls) /\ ~s.url_failed
      THEN [s EXCEPT !.idx = @ + 1, !.pc = "check"]
      ELSE PrintSummary(s)

\* line 93: the for loop over urls takes its next element, or ends
NextUrl(s) ==
    IF s.idx < Len(s.urls)
      THEN [s EXCEPT !.idx = @ + 1, !.pc = "check"]
      ELSE PrintSummary(s)

\* line 180: the URL goes to one bucket
BucketUrl(s) ==
    IF s.url_failed
      THEN [s EXCEPT !.fail_urls = Append(@, CurUrl(s))]
      ELSE [s EXCEPT !.ok_urls = Append(@, CurUrl(s))]

\* faulty variant: the first export that fails ends the URL
NextExport_StopAtFailure(s) ==
    LET t == [s EXCEPT !.attempts = <<>>, !.ai = 0, !.last_err = NoneStr]
    IN  IF t.ei < Len(t.last_exports) /\ ~t.url_failed
          THEN [t EXCEPT !.ei = @ + 1, !.pc = "nocookies"]
          ELSE NextUrl(BucketUrl(t))

\* line 104: the for loop over exports takes its next element, or ends and
\* the URL is bucketed.  The pair's locals attempts and last_err are
\* written again before they are read (lines 152, 154): they are cleared
\* here
NextExport(s) ==
    LET t == [s EXCEPT !.attempts = <<>>, !.ai = 0, !.last_err = NoneStr]
    IN  IF t.ei < Len(t.last_exports)
          THEN [t EXCEPT !.ei = @ + 1, !.pc = "nocookies"]
          ELSE NextUrl(BucketUrl(t))

\* lines 115-118, 140-142: the format is done
PairOk(s) ==
    [s EXCEPT !.pair_status = "ok", !.pair_results = Append(@, "ok")]

\* faulty variant: a format that failed drops the locked credential
PairFailed_DropsLock(s, err) ==
    [s EXCEPT !.url_failed = TRUE, !.pair_status = "failed", !.reported = err,
              !.pair_results = Append(@, "failed"),
              !.chosen_cookie_mode = NoneSeq, !.chosen_cookie_base = NoneDict]

\* lines 121-122, 127-128, 145-146, 177-178: the format failed, err is printed
PairFailed(s, err) ==
    [s EXCEPT !.url_failed = TRUE, !.pair_status = "failed", !.reported = err,
              !.pair_results = Append(@, "failed")]

\* faulty variant: the handler of KeyboardInterrupt prints the batch's summary
RaiseKeyboardInterrupt_WithSummary(s) ==
    [PrintSummary(s) EXCEPT !.pc = "exited", !.ciao = TRUE]

\* lines 112-113, 137-138, 161-162 with 202-204: raise KeyboardInterrupt,
\* caught by main's handler, which prints and returns
RaiseKeyboardInterrupt(s) == [s EXCEPT !.pc = "exited", !.ciao = TRUE]

\* faulty variant: a cancelled call is taken for a failed one
IsCancelled_Never(r) == FALSE

\* lines 112, 137, 161: the test that takes a result for a cancellation
IsCancelled(r) == r.error = CANCELLED

\* faulty variant: every failure of the no-cookies attempt goes on to the cookies
NoCookiesFailureIsTerminal_Never(err) == FALSE

\* faulty variant: a network failure of the no-cookies attempt goes on to the cookies
NoCookiesFailureIsTerminal_OnlyPermanent(err) ==
    is_permanent_unavailable_error(err)

\* lines 120 and 126: the no-cookies failure ends the pair
NoCookiesFailureIsTerminal(err) ==
    is_permanent_unavailable_error(err) \/ is_networkish_error(err)

\* faulty variant: a failed locked credential always falls back to the sweep
LockedFailureIsTerminal_Never(err) == FALSE

\* line 144: the locked-credential failure ends the pair
LockedFailureIsTerminal(err) ==
    is_permanent_unavailable_error(err) \/ is_networkish_error(err)

\* faulty variant: the sweep tries every candidate, whatever the failure
SweepFailureBreaks_Never(err) == FALSE

\* line 173: the candidate's failure breaks the sweep
SweepFailureBreaks(err) ==
    is_permanent_unavailable_error(err) \/ is_networkish_error(err)

\* faulty variant: the locked credential is kept from one batch to the next
StartBatch_KeepLock(s) ==
    [s EXCEPT !.overwritten_lock = s.chosen_cookie_base,
              !.ok_urls = <<>>,
              !.fail_urls = <<>>,
              !.invalid_urls = <<>>,
              !.printed_summary = NoneDict,
              !.fresh = FALSE,
              !.idx = 1,
              !.pc = "check"]

\* lines 80-93: the batch's locals are initialised and the for loop starts
\* (urls is not empty: line 53)
StartBatch(s) ==
    [s EXCEPT !.overwritten_lock = s.chosen_cookie_base,
              !.chosen_cookie_mode = NoneSeq,
              !.chosen_cookie_base = NoneDict,
              !.ok_urls = <<>>,
              !.fail_urls = <<>>,
              !.invalid_urls = <<>>,
              !.fresh = FALSE,
              !.idx = 1,
              !.pc = "check"]

\* lines 74-78: the formats are asked for only when none is remembered
FormatsStep(s) ==
    IF s.last_exports = NoneSeq THEN [s EXCEPT !.pc = "formats"] ELSE StartBatch(s)

\* lines 64-69: the folder is asked for only when none is remembered
OutDirStep(s) ==
    IF s.last_out_dir = NoneSeq THEN [s EXCEPT !.pc = "outdir"] ELSE FormatsStep(s)

\* what was observed of the latest (URL, format) pair is forgotten, with its
\* r0, which line 110 writes again before any read, and the logger of its
\* last call, which nothing refers to
ForgetPair(s) ==
    [s EXCEPT !.eng = NoneDict, !.calls = <<>>, !.pair_lock = NoneDict,
              !.pair_status = "none", !.reported = NoneStr, !.r0 = NoneDict,
              !.pair_results = <<>>, !.logger = NoneStr]

\* The locals of the finished batch that lines 57, 86-88, 93, 102 and 104
\* write again before any read (urls, the three buckets, url, url_failed,
\* export_ext) are cleared once the next input is read, with what was
\* observed of the finished batch.  chosen_cookie_mode and chosen_cookie_base
\* are left as they are until lines 83-84 assign them.
ForgetBatch(s) ==
    [ForgetPair(s) EXCEPT !.urls = <<>>, !.idx = 0, !.ei = 0,
                          !.url_failed = FALSE, !.ok_urls = <<>>,
                          !.fail_urls = <<>>, !.invalid_urls = <<>>,
                          !.verdict = NoneDict,
                          !.printed_summary = NoneDict]

\* faulty variant: the reset forgets the folder and keeps the formats
Reset_FolderOnly(s) ==
    [s EXCEPT !.last_out_dir = NoneSeq, !.fresh = TRUE]

\* lines 40-43: the reset input
Reset(s) ==
    [s EXCEPT !.last_out_dir = NoneSeq, !.last_exports = NoneSeq, !.fresh = TRUE]

\* lines 37-59: one answer of choose_input; cx is whether cookies.txt exists
\* while the batch runs
OnInput(s, inp, cx) ==
    LET t == ForgetBatch(s)
    IN  IF inp.reset
          THEN Reset(t)
          ELSE IF inp.source = "file" /\ inp.text = ""
                 THEN t
                 ELSE IF inp.text = ""
                        THEN [t EXCEPT !.pc = "exited"]
                        ELSE IF inp.urls = <<>>
                               THEN t
                               ELSE OutDirStep([t EXCEPT !.urls = inp.urls,
                                                         !.cookie_exists = cx])

\* lines 65-67: the folder prompt is answered; a ValueError of
\* resolve_output_dir is caught nowhere
OnOutputDir(s, target) ==
    LET r == resolve_output_dir(target)
    IN  IF r.raised
          THEN [s EXCEPT !.pc = "crashed"]
          ELSE FormatsStep([s EXCEPT !.last_out_dir = r.out_dir])

\* lines 75-76: the format prompt is answered
OnFormats(s, ex) == StartBatch([s EXCEPT !.last_exports = ex])

\* faulty variant: a URL that fails the pre-check is recorded and downloaded anyway
OnUrlCheck_TryAnyway(s, v) ==
    LET t == [ForgetPair(s) EXCEPT !.overwritten_lock = NoneDict, !.verdict = v]
    IN  IF ~v.ok_url
          THEN [t EXCEPT !.invalid_urls = Append(@, <<CurUrl(t), v.why>>),
                         !.url_failed = FALSE, !.ei = 1, !.pc = "nocookies"]
          ELSE [t EXCEPT !.url_failed = FALSE, !.ei = 1, !.pc = "nocookies"]

\* lines 96-102: the pre-check's verdict for the current URL
OnUrlCheck(s, v) ==
    LET t == [ForgetPair(s) EXCEPT !.overwritten_lock = NoneDict, !.verdict = v]
    IN  IF ~v.ok_url
          THEN NextUrl([t EXCEPT !.invalid_urls = Append(@, <<CurUrl(t), v.why>>)])
          ELSE [t EXCEPT !.url_failed = FALSE, !.ei = 1, !.pc = "nocookies"]

\* faulty variant: the sweep starts at its second candidate
StartSweep_FromSecond(s) ==
    LET a == build_cookie_attempts(
                 build_base_opts(s.last_out_dir, TRUE, s.cookie_exists))
    IN  [s EXCEPT !.attempts = a,
                  !.last_err = s.r0.error,
                  !.ai = IF Len(a) >= 2 THEN 2 ELSE 1,
                  !.pc = "sweep"]

\* faulty variant: the sweep starts by dropping the locked credential
StartSweep_Unlocked(s) ==
    [s EXCEPT !.attempts = build_cookie_attempts(
                               build_base_opts(s.last_out_dir, TRUE, s.cookie_exists)),
              !.last_err = s.r0.error,
              !.ai = 1,
              !.pc = "sweep",
              !.chosen_cookie_mode = NoneSeq,
              !.chosen_cookie_base = NoneDict]

\* lines 151-155: the sweep starts (attempts is never empty)
StartSweep(s) ==
    [s EXCEPT !.attempts = build_cookie_attempts(
                               build_base_opts(s.last_out_dir, TRUE, s.cookie_exists)),
              !.last_err = s.r0.error,
              !.ai = 1,
              !.pc = "sweep"]

\* faulty variant: the locked credential is not tried before the sweep
AfterNoCookiesFailure_NoLocked(s) == StartSweep(s)

\* line 133: after an unclassified no-cookies failure
AfterNoCookiesFailure(s) ==
    IF s.chosen_cookie_base # NoneDict THEN [s EXCEPT !.pc = "locked"] ELSE StartSweep(s)

\* lines 108-130: the no-cookies attempt returned
OnNoCookies(s, e) ==
    LET base_no == build_base_opts(s.last_out_dir, FALSE, s.cookie_exists)
        ydl_no  == build_opts_for_format(base_no, CurExt(s))
        res     == run_download(e)
        t == [s EXCEPT !.eng = e, !.logger = LoggerAfter(e),
                       !.r0 = res, !.calls = <<ydl_no>>,
                       !.pair_lock = s.chosen_cookie_base,
                       !.pair_status = "running", !.reported = NoneStr]
    IN  IF IsCancelled(res) THEN RaiseKeyboardInterrupt(t)
        ELSE IF res.ok THEN NextExport(PairOk(t))
        ELSE IF NoCookiesFailureIsTerminal(res.error)
               THEN NextExport(PairFailed(t, res.error))
               ELSE AfterNoCookiesFailure(t)

\* lines 134-148: the locked-credential attempt returned
OnLocked(s, e) ==
    LET ydl_locked == build_opts_for_format(s.chosen_cookie_base, CurExt(s))
        r1 == run_download(e)
        t  == [s EXCEPT !.eng = e, !.logger = LoggerAfter(e),
                        !.calls = Append(@, ydl_locked)]
    IN  IF IsCancelled(r1) THEN RaiseKeyboardInterrupt(t)
        ELSE IF r1.ok THEN NextExport(PairOk(t))
        ELSE IF LockedFailureIsTerminal(r1.error)
               THEN NextExport(PairFailed(t, r1.error))
               ELSE StartSweep(t)

\* faulty variant: a credential already locked is kept
LockCredential_KeepFirst(s, cand) ==
    IF s.chosen_cookie_base # NoneDict
      THEN s
      ELSE [s EXCEPT !.chosen_cookie_mode = cand.mode,
                     !.chosen_cookie_base = cand.base]

\* lines 165-166: the candidate that succeeded becomes the locked credential
LockCredential(s, cand) ==
    [s EXCEPT !.chosen_cookie_mode = cand.mode, !.chosen_cookie_base = cand.base]

\* faulty variant: a sweep that ran out of candidates starts over
NextAttempt_Wraps(s) ==
    IF s.ai < Len(s.attempts)
      THEN [s EXCEPT !.ai = @ + 1]
      ELSE [s EXCEPT !.ai = 1]

\* lines 157 and 176-178: the loop over attempts takes its next element, or
\* ends without success
NextAttempt(s) ==
    IF s.ai < Len(s.attempts)
      THEN [s EXCEPT !.ai = @ + 1]
      ELSE NextExport(PairFailed(s, Or(s.last_err, "unknown error")))

\* lines 158-178: one candidate's attempt returned
OnSweep(s, e) ==
    LET cand    == s.attempts[s.ai]
        ydl_try == build_opts_for_format(cand.base, CurExt(s))
        r2 == run_download(e)
        t  == [s EXCEPT !.eng = e, !.logger = LoggerAfter(e),
                        !.calls = Append(@, ydl_try)]
        u  == [t EXCEPT !.last_err = r2.error]
    IN  IF IsCancelled(r2) THEN RaiseKeyboardInterrupt(t)
        ELSE IF r2.ok THEN NextExport(PairOk(LockCredential(t, cand)))
        ELSE IF SweepFailureBreaks(r2.error)
               THEN NextExport(PairFailed(u, Or(u.last_err, "unknown error")))
               ELSE NextAttempt(u)

----------------------------------------------------------------------------
(* Actions: one per blocking call of main() *)

\* line 37: choose_input returns
ChooseInput ==
    /\ pc = "input"
    /\ \E inp \in Inputs, cx \in BOOLEAN :
          Becomes([OnInput(State, inp, cx) EXCEPT
                      !.last_op = IF inp.reset THEN "reset" ELSE "input"])

\* line 65: the folder prompt returns
AskOutputDir ==
    /\ pc = "outdir"
    /\ \E target \in UserDirs :
          Becomes([OnOutputDir(State, target) EXCEPT !.last_op = "outdir"])

\* line 75: choose_formats returns
ChooseFormats ==
    /\ pc = "formats"
    /\ \E ex \in ExportChoices :
          Becomes([OnFormats(State, ex) EXCEPT !.last_op = "formats"])

\* lines 23-25 with 202-204: Ctrl+C at a prompt leaves main
PromptInterrupted ==
    /\ pc \in {"input", "outdir", "formats"}
    /\ Becomes([RaiseKeyboardInterrupt(State) EXCEPT !.last_op = "prompt_interrupt"])

\* line 96: quick_url_check returns
QuickUrlCheck ==
    /\ pc = "check"
    /\ \E v \in UrlVerdicts :
          Becomes([OnUrlCheck(State, v) EXCEPT !.last_op = "check"])

\* line 110: run_download returns for the no-cookies attempt
AttemptNoCookies ==
    /\ pc = "nocookies"
    /\ \E e \in EngineCalls :
          Becomes([OnNoCookies(State, e) EXCEPT !.last_op = "nocookies"])

\* line 135: run_download returns for the locked-credential attempt
AttemptLocked ==
    /\ pc = "locked"
    /\ \E e \in EngineCalls :
          Becomes([OnLocked(State, e) EXCEPT !.last_op = "locked"])

\* line 159: run_download returns for a candidate of the sweep
AttemptSweep ==
    /\ pc = "sweep"
    /\ \E e \in EngineCalls :
          Becomes([OnSweep(State, e) EXCEPT !.last_op = "sweep"])

Next ==
    \/ ChooseInput
    \/ AskOutputDir
    \/ ChooseFormats
    \/ PromptInterrupted
    \/ QuickUrlCheck
    \/ AttemptNoCookies
    \/ AttemptLocked
    \/ AttemptSweep

Spec == Init /\ [][Next]_vars

----------------------------------------------------------------------------
(* run_download on its own: one call after another, main() not running *)

\* file names an engine call may name or leave on disk
FileNames == {"out.mp4", "tmp.part"}

\* what the engine may pass to logger.error during one call
LoggedTexts ==
    { <<>>, <<"">>, <<TXT_AUTH>>, <<TXT_NETWORK, TXT_AUTH>>, <<TXT_AUTH, "">>,
      <<CANCELLED>> }

\* the engine calls run_download is exercised with
EngineSpace ==
    { EngineCall("none", TRUE, c, d, l, NoneStr) :
        c \in SUBSET (FileNames \cup {NoneStr, ""}), d \in SUBSET FileNames,
        l \in LoggedTexts }
    \cup
    { EngineCall("none", FALSE, {}, d, l, NoneStr) :
        d \in SUBSET FileNames, l \in LoggedTexts }
    \cup
    { EngineCall(x, FALSE, {}, d, l, s) :
        x \in {"DownloadError", "Exception", "KeyboardInterrupt"},
        d \in SUBSET FileNames, l \in LoggedTexts,
        s \in {"", TXT_PERMANENT, CANCELLED} }

\* the variables of main(), which is not running
main_vars ==
    << pc, last_out_dir, last_exports, urls, idx, ei, chosen_cookie_mode,
       chosen_cookie_base, ok_urls, fail_urls, invalid_urls, url_failed,
       attempts, ai, last_err, verdict, cookie_exists, calls, pair_lock,
       pair_status, pair_results, reported, printed_summary, ciao,
       overwritten_lock, fresh, last_op >>

\* lines 138-178: one call of run_download; r0 is what it returns
Execute ==
    \E e \in EngineSpace :
        /\ eng' = e
        /\ logger' = LoggerAfter(e)
        /\ r0' = run_download(e)
        /\ stale' = logger
        /\ UNCHANGED <<main_vars, history, resolved, built, tally>>

ExecNext == Execute

ExecSpec == Init /\ [][ExecNext]_vars

----------------------------------------------------------------------------
(* resolve_output_dir on its own, main() not running *)

\* names of path components
PartNames == {"music", "x", ".", ".."}

\* sequences of at most n components
RECURSIVE PartSeqs(_)
PartSeqs(n) ==
    IF n = 0 THEN { <<>> }
    ELSE PartSeqs(n - 1)
           \cup { Append(q, c) : q \in { r \in PartSeqs(n - 1) : Len(r) = n - 1 },
                                 c \in PartNames }

\* what may be typed at the folder prompt: relative and absolute paths
UserPaths ==
    { [is_absolute |-> a, parts |-> q] : a \in BOOLEAN, q \in PartSeqs(MaxParts) }

\* lines 5-16: one call of resolve_output_dir
ResolveOutputDir ==
    \E user_input \in UserPaths :
        /\ resolved' = [ input |-> user_input,
                         result |-> resolve_output_dir(user_input) ]
        /\ UNCHANGED <<main_vars, eng, r0, logger, stale, history, built, tally>>

PathNext == ResolveOutputDir

PathSpec == Init /\ [][PathNext]_vars

----------------------------------------------------------------------------
(* build_opts_for_format on its own, main() not running *)

\* the formats asked of build_opts_for_format: the four of choose_formats
\* and one it does not recognise
ExportFormats == {"mp4", "mkv", "mov", "mp3", "webm"}

\* the output directories of the bases
OutDirs == { DownloadsBase, DownloadsBase \o <<"music">> }

\* the bases main() builds: build_base_opts without cookies (line 108) and
\* the bases of the sweep's candidates (lines 151-152), one of which becomes
\* the locked base (line 166)
FreshBases ==
    { build_base_opts(d, FALSE, cx) : d \in OutDirs, cx \in BOOLEAN }
    \cup
    UNION { { build_cookie_attempts(build_base_opts(d, TRUE, cx))[i].base :
                i \in 1..Len(build_cookie_attempts(build_base_opts(d, TRUE, cx))) } :
            d \in OutDirs, cx \in BOOLEAN }

\* lines 59-80: one call of build_opts_for_format, on a base main() builds
\* or on the options an earlier call returned
BuildOptsForFormat ==
    \E base_opts \in FreshBases \cup
                       (IF built = NoneDict THEN {} ELSE {built.opts}),
       export_ext \in ExportFormats :
        /\ built' = [ base |-> base_opts, ext |-> export_ext,
                      opts |-> build_opts_for_format(base_opts, export_ext) ]
        /\ UNCHANGED <<main_vars, eng, r0, logger, stale, history, resolved, tally>>

OptsNext == BuildOptsForFormat

OptsSpec == Init /\ [][OptsNext]_vars

----------------------------------------------------------------------------
(* One batch of three URLs and one format, every step of it recorded *)

\* the batch of the scenario
ScenarioUrls == <<"u/a", "u/b", "u/c">>

\* how an executor call ended, as the attempt policy sees it
Outcome(r) ==
    IF IsCancelled(r) THEN "cancelled"
    ELSE IF r.ok THEN "ok"
    ELSE classify(r.error)

\* the credential mode of the call main() is about to make
PendingMode(s) ==
    IF s.pc = "nocookies" THEN <<"none">>
    ELSE IF s.pc = "locked" THEN s.chosen_cookie_mode
    ELSE s.attempts[s.ai].mode

\* main() after construction, as a record (there is no cookies.txt)
Constructed ==
    [ pc |-> "input",
      last_out_dir |-> NoneSeq,
      last_exports |-> NoneSeq,
      urls |-> <<>>,
      idx |-> 0,
      ei |-> 0,
      chosen_cookie_mode |-> NoneSeq,
      chosen_cookie_base |-> NoneDict,
      ok_urls |-> <<>>,
      fail_urls |-> <<>>,
      invalid_urls |-> <<>>,
      url_failed |-> FALSE,
      r0 |-> NoneDict,
      attempts |-> <<>>,
      ai |-> 0,
      last_err |-> NoneStr,
      verdict |-> NoneDict,
      cookie_exists |-> FALSE,
      eng |-> NoneDict,
      calls |-> <<>>,
      pair_lock |-> NoneDict,
      pair_status |-> "none",
      pair_results |-> <<>>,
      reported |-> NoneStr,
      printed_summary |-> NoneDict,
      ciao |-> FALSE,
      overwritten_lock |-> NoneDict,
      fresh |-> TRUE,
      last_op |-> "start",
      logger |-> NoneStr ]

\* main() has read the three URLs, resolved the Downloads folder, taken the
\* single format mp4 and is about to pre-check the first URL
ScenarioStart ==
    LET s1 == OnInput(Constructed,
                      [reset |-> FALSE, source |-> "paste", text |-> "links",
                       urls |-> ScenarioUrls], FALSE)
        s2 == OnOutputDir(s1, [is_absolute |-> FALSE, parts |-> <<>>])
        s3 == OnFormats(s2, <<"mp4">>)
    IN  [s3 EXCEPT !.last_op = "formats"]

ScenarioInit ==
    /\ pc = ScenarioStart.pc
    /\ last_out_dir = ScenarioStart.last_out_dir
    /\ last_exports = ScenarioStart.last_exports
    /\ urls = ScenarioStart.urls
    /\ idx = ScenarioStart.idx
    /\ ei = ScenarioStart.ei
    /\ chosen_cookie_mode = ScenarioStart.chosen_cookie_mode
    /\ chosen_cookie_base = ScenarioStart.chosen_cookie_base
    /\ ok_urls = ScenarioStart.ok_urls
    /\ fail_urls = ScenarioStart.fail_urls
    /\ invalid_urls = ScenarioStart.invalid_urls
    /\ url_failed = ScenarioStart.url_failed
    /\ r0 = ScenarioStart.r0
    /\ attempts = ScenarioStart.attempts
    /\ ai = ScenarioStart.ai
    /\ last_err = ScenarioStart.last_err
    /\ verdict = ScenarioStart.verdict
    /\ cookie_exists = ScenarioStart.cookie_exists
    /\ eng = ScenarioStart.eng
    /\ calls = ScenarioStart.calls
    /\ pair_lock = ScenarioStart.pair_lock
    /\ pair_status = ScenarioStart.pair_status
    /\ pair_results = ScenarioStart.pair_results
    /\ reported = ScenarioStart.reported
    /\ printed_summary = ScenarioStart.printed_summary
    /\ ciao = ScenarioStart.ciao
    /\ overwritten_lock = ScenarioStart.overwritten_lock
    /\ fresh = ScenarioStart.fresh
    /\ last_op = ScenarioStart.last_op
    /\ logger = ScenarioStart.logger
    /\ stale = NoneStr
    /\ history = <<>>
    /\ resolved = NoneDict
    /\ built = NoneDict
    /\ executed = 0
    /\ locked_failures = 0
    /\ locks_set = 0

\* line 96, recorded
ScenarioCheck ==
    /\ pc = "check"
    /\ \E v \in UrlVerdicts :
          /\ Assign([OnUrlCheck(State, v) EXCEPT !.last_op = "check"])
          /\ history' = Append(history,
                 [url |-> CurUrl(State), mode |-> <<"check">>,
                  result |-> IF v.ok_url THEN "valid" ELSE "invalid"])
          /\ UNCHANGED <<stale, resolved, built, tally>>

\* what a recorded executor call adds to the history
Recorded(e) ==
    Append(history, [url |-> CurUrl(State), mode |-> PendingMode(State),
                     result |-> Outcome(run_download(e))])

\* line 110, recorded
ScenarioNoCookies ==
    /\ pc = "nocookies"
    /\ \E e \in EngineCalls :
          /\ Assign([OnNoCookies(State, e) EXCEPT !.last_op = "nocookies"])
          /\ history' = Recorded(e)
          /\ UNCHANGED <<stale, resolved, built, tally>>

\* line 135, recorded
ScenarioLocked ==
    /\ pc = "locked"
    /\ \E e \in EngineCalls :
          /\ Assign([OnLocked(State, e) EXCEPT !.last_op = "locked"])
          /\ history' = Recorded(e)
          /\ UNCHANGED <<stale, resolved, built, tally>>

\* line 159, recorded
ScenarioSweep ==
    /\ pc = "sweep"
    /\ \E e \in EngineCalls :
          /\ Assign([OnSweep(State, e) EXCEPT !.last_op = "sweep"])
          /\ history' = Recorded(e)
          /\ UNCHANGED <<stale, resolved, built, tally>>

\* the batch runs to its summary or to a cancellation; no further input is read
ScenarioNext ==
    \/ ScenarioCheck
    \/ ScenarioNoCookies
    \/ ScenarioLocked
    \/ ScenarioSweep

ScenarioSpec == ScenarioInit /\ [][ScenarioNext]_vars

----------------------------------------------------------------------------
(* One batch, its executor calls counted *)

\* the program variables have the values of the record t
Holds(t) ==
    /\ pc = t.pc
    /\ last_out_dir = t.last_out_dir
    /\ last_exports = t.last_exports
    /\ urls = t.urls
    /\ idx = t.idx
    /\ ei = t.ei
    /\ chosen_cookie_mode = t.chosen_cookie_mode
    /\ chosen_cookie_base = t.chosen_cookie_base
    /\ ok_urls = t.ok_urls
    /\ fail_urls = t.fail_urls
    /\ invalid_urls = t.invalid_urls
    /\ url_failed = t.url_failed
    /\ r0 = t.r0
    /\ attempts = t.attempts
    /\ ai = t.ai
    /\ last_err = t.last_err
    /\ verdict = t.verdict
    /\ cookie_exists = t.cookie_exists
    /\ eng = t.eng
    /\ calls = t.calls
    /\ pair_lock = t.pair_lock
    /\ pair_status = t.pair_status
    /\ pair_results = t.pair_results
    /\ reported = t.reported
    /\ printed_summary = t.printed_summary
    /\ ciao = t.ciao
    /\ overwritten_lock = t.overwritten_lock
    /\ fresh = t.fresh
    /\ last_op = t.last_op
    /\ logger = t.logger

\* lines 37-84: main() has read the URLs us, resolved the Downloads folder,
\* taken the formats ex and is about to pre-check the first URL
BatchStart(us, ex, cx) ==
    LET s1 == OnInput(Constructed,
                      [reset |-> FALSE, source |-> "paste", text |-> "links",
                       urls |-> us], cx)
        s2 == OnOutputDir(s1, [is_absolute |-> FALSE, parts |-> <<>>])
        s3 == OnFormats(s2, ex)
    IN  [s3 EXCEPT !.last_op = "formats"]

\* the batches counted: one pair; two URLs in two formats, audio first;
\* three URLs, one of them twice, in one format
Batches ==
    { [urls |-> <<"u/a">>, exports |-> <<"mp4">>],
      [urls |-> <<"u/a", "u/b">>, exports |-> <<"mp3", "mkv">>],
      [urls |-> <<"u/c", "u/a", "u/c">>, exports |-> <<"mov">>] }

BatchInit ==
    /\ \E b \in Batches, cx \in BOOLEAN :
          Holds(BatchStart(b.urls, b.exports, cx))
    /\ stale = NoneStr
    /\ history = <<>>
    /\ resolved = NoneDict
    /\ built = NoneDict
    /\ executed = 0
    /\ locked_failures = 0
    /\ locks_set = 0

\* line 96: quick_url_check returns; no executor call
BatchCheck ==
    /\ pc = "check"
    /\ \E v \in UrlVerdicts :
          Assign([OnUrlCheck(State, v) EXCEPT !.last_op = "check"])
    /\ UNCHANGED <<stale, history, resolved, built, tally>>

\* line 110, counted
BatchNoCookies ==
    /\ pc = "nocookies"
    /\ \E e \in EngineCalls :
          Assign([OnNoCookies(State, e) EXCEPT !.last_op = "nocookies"])
    /\ executed' = executed + 1
    /\ UNCHANGED <<stale, history, resolved, built, locked_failures, locks_set>>

\* line 135, counted
BatchLocked ==
    /\ pc = "locked"
    /\ \E e \in EngineCalls :
          /\ Assign([OnLocked(State, e) EXCEPT !.last_op = "locked"])
          /\ locked_failures' =
                IF ~run_download(e).ok /\ ~IsCancelled(run_download(e))
                  THEN locked_failures + 1 ELSE locked_failures
    /\ executed' = executed + 1
    /\ UNCHANGED <<stale, history, resolved, built, locks_set>>

\* line 159, counted
BatchSweep ==
    /\ pc = "sweep"
    /\ \E e \in EngineCalls :
          /\ Assign([OnSweep(State, e) EXCEPT !.last_op = "sweep"])
          /\ locks_set' =
                IF run_download(e).ok /\ ~IsCancelled(run_download(e))
                  THEN locks_set + 1 ELSE locks_set
    /\ executed' = executed + 1
    /\ UNCHANGED <<stale, history, resolved, built, locked_failures>>

BatchNext ==
    \/ BatchCheck
    \/ BatchNoCookies
    \/ BatchLocked
    \/ BatchSweep

BatchSpec == BatchInit /\ [][BatchNext]_vars

----------------------------------------------------------------------------
(* Properties *)

\* a (URL, format) pair is in progress or has just ended
PairSeen == r0 # NoneDict

\* the pair's no-cookies attempt failed with an error of class c
FirstFailedAs(c) ==
    /\ PairSeen
    /\ ~r0.ok
    /\ ~IsCancelled(r0)
    /\ classify(r0.error) = c

\* the URL whose last export just ended, once it is bucketed
BucketedUrl == IF pc = "check" THEN urls[idx - 1] ELSE urls[idx]

\* the for loop over exports has ended for the URL of the latest pair
UrlDone == PairSeen /\ pc \in {"check", "input"}

\* C1: a pair whose no-cookies attempt fails PermanentUnavailable or Network
\* has exactly one executor call, is never in the locked or sweep state, and
\* is recorded as failed (url_failed set; the URL, once bucketed, is the
\* last of fail_urls), with or without a lock.
C1_TerminalFirstFailure ==
    (FirstFailedAs("PermanentUnavailable") \/ FirstFailedAs("Network")) =>
        /\ Len(calls) = 1
        /\ pc \notin {"locked", "sweep"}
        /\ pair_status = "failed"
        /\ reported = r0.error
        /\ url_failed
        /\ UrlDone => /\ fail_urls # <<>>
                      /\ fail_urls[Len(fail_urls)] = BucketedUrl

\* C1 witness: a network failure of the no-cookies attempt while a lock is set
C1_Witness ==
    /\ FirstFailedAs("Network")
    /\ pair_lock # NoneDict
    /\ pair_status = "failed"
    /\ Len(calls) = 1

\* the export format of the latest pair
PairExt ==
    IF pair_status = "running" \/ pc = "exited" THEN last_exports[ei]
    ELSE IF pc = "nocookies" THEN last_exports[ei - 1]
    ELSE last_exports[Len(last_exports)]

\* what the sweep builds while this batch runs: lines 151-152
SweepCandidates ==
    build_cookie_attempts(build_base_opts(last_out_dir, TRUE, cookie_exists))

\* C2: when a lock is set as a pair starts and the pair's no-cookies attempt
\* fails Unknown, the pair's second executor call is the locked attempt: the
\* sweep is not entered before it, its options are the locked base
\* specialised to the pair's format, which is what the sweep builds for that
\* candidate and format, and the sweep that may follow starts at candidate 1.
C2_LockedAttemptIsSecondCall ==
    (FirstFailedAs("Unknown") /\ pair_lock # NoneDict) =>
        /\ Len(calls) = 1 => pc = "locked"
        /\ pc = "sweep" => (Len(calls) >= 2 /\ ai = Len(calls) - 1)
        /\ Len(calls) >= 2 =>
              /\ calls[2] = build_opts_for_format(pair_lock, PairExt)
              /\ \E i \in 1..Len(SweepCandidates) :
                    /\ SweepCandidates[i].base = pair_lock
                    /\ calls[2] = build_opts_for_format(
                                      SweepCandidates[i].base, PairExt)

\* C2 witness: the locked attempt has run with a lock that is not the first
\* candidate of the sweep, and the sweep has started after it
C2_Witness ==
    /\ FirstFailedAs("Unknown")
    /\ pair_lock # NoneDict
    /\ pair_lock.cookiesfrombrowser = "chrome"
    /\ Len(calls) = 2
    /\ pc = "sweep"

\* C3: a sweep attempt that succeeds leaves the locked credential equal to
\* the (mode, base) of the candidate that succeeded, whatever was locked.
C3_SweepSuccessLocks ==
    [][ (pc = "sweep" /\ run_download(eng').ok /\ last_op' = "sweep") =>
            /\ chosen_cookie_mode' = attempts[ai].mode
            /\ chosen_cookie_base' = attempts[ai].base ]_vars

\* C3 witness: a sweep success has replaced a different locked credential
C3_Witness ==
    /\ last_op = "sweep"
    /\ run_download(eng).ok
    /\ pair_lock # NoneDict
    /\ chosen_cookie_base # pair_lock
    /\ chosen_cookie_base # NoneDict

\* the latest executor call was interrupted by the user
CallInterrupted == eng # NoneDict /\ eng.raised = "KeyboardInterrupt"

\* the URLs of the batch that are in a bucket
Bucketed == Len(ok_urls) + Len(fail_urls) + Len(invalid_urls)

\* C4: once an executor call is interrupted, in whichever of the three
\* states, main has returned through its KeyboardInterrupt handler: no step
\* (no executor call, no pre-check) follows, the URL being processed is in no
\* bucket and its pair was not closed as ok or failed.
C4_CancellationAbortsBatch ==
    CallInterrupted =>
        /\ pc = "exited"
        /\ ciao
        /\ ~ENABLED Next
        /\ Bucketed = idx - 1
        /\ pair_status = "running"
        /\ Len(pair_results) = ei - 1

\* C4 witness: the second candidate of a sweep was interrupted while a second
\* URL was being processed
C4_Witness ==
    /\ CallInterrupted
    /\ last_op = "sweep"
    /\ Len(calls) >= 3
    /\ idx = 2
    /\ idx < Len(urls) \/ ei < Len(last_exports)

\* C5 as stated: a batch aborted by a cancellation has its partial summary
\* printed before the program exits.
C5_SummaryOnCancellation ==
    CallInterrupted => printed_summary # NoneDict

\* C5 amended: a batch aborted by a cancellation prints no summary: main's
\* KeyboardInterrupt handler has run and main has returned, the tallies
\* gathered so far unprinted.
C5_NoSummaryOnCancellation ==
    CallInterrupted =>
        /\ printed_summary = NoneDict
        /\ ciao
        /\ pc = "exited"

\* C5 witness: a cancellation while the buckets already hold a URL
C5_Witness ==
    /\ CallInterrupted
    /\ Bucketed >= 1
    /\ printed_summary = NoneDict
    /\ pc = "exited"

\* the first URL of a batch is about to be pre-checked
BatchStarts == pc = "check" /\ idx = 1 /\ last_op \in {"input", "outdir", "formats"}

\* C6 as stated: a lock set in one batch is still set at the start of a
\* later batch reached without a reset in between (the folder and formats
\* were reused, so the batch started straight from the input).
C6_LockSurvivesBatch ==
    (BatchStarts /\ last_op = "input" /\ overwritten_lock # NoneDict) =>
        chosen_cookie_base = overwritten_lock

\* C6 amended: the locked credential is batch state: at the start of every
\* batch nothing is locked, whatever the previous batch locked and whether
\* or not a reset came in between.
C6_LockIsPerBatch ==
    BatchStarts =>
        /\ chosen_cookie_base = NoneDict
        /\ chosen_cookie_mode = NoneSeq

\* C6 witness: a batch starts without a reset after a batch that had locked
C6_Witness ==
    /\ BatchStarts
    /\ last_op = "input"
    /\ overwritten_lock # NoneDict

\* the credential mode an options dict carries
ModeOf(opts) ==
    IF opts.cookiefile # Absent THEN <<"cookiefile">>
    ELSE IF opts.cookiesfrombrowser # Absent
           THEN <<"browser", opts.cookiesfrombrowser>>
           ELSE <<"none">>

\* the registry's candidates, in registry order
RegistryModes ==
    IF cookie_exists
      THEN << <<"cookiefile">> >>
      ELSE [ i \in 1..Len(cookie_sources) |-> <<"browser", cookie_sources[i]>> ]

\* the escalation ladder of a pair that started with lock
Ladder(lock) ==
    << <<"none">> >>
      \o (IF lock # NoneDict THEN << ModeOf(lock) >> ELSE <<>>)
      \o RegistryModes

\* the result of the latest executor call
LastResult == run_download(eng)

\* C7: the credential modes passed to the executor for a pair are a prefix
\* of <none, locked (if set when the pair starts), c1..cN>, no-cookies first;
\* the pair goes on only after an Unknown failure and makes no call once it
\* succeeded, failed terminally or ran out of candidates.
C7_LadderOrder ==
    PairSeen =>
        /\ Len(calls) >= 1
        /\ Len(calls) <= Len(Ladder(pair_lock))
        /\ \A i \in 1..Len(calls) : ModeOf(calls[i]) = Ladder(pair_lock)[i]
        /\ (pair_status = "running" /\ pc # "exited") =>
              /\ pc \in {"locked", "sweep"}
              /\ ~LastResult.ok
              /\ classify(LastResult.error) = "Unknown"
        /\ pair_status = "ok" => (LastResult.ok /\ pc \notin {"locked", "sweep"})
        /\ pair_status = "failed" =>
              /\ pc \notin {"locked", "sweep"}
              /\ ~LastResult.ok
              /\ \/ classify(LastResult.error) # "Unknown"
                 \/ Len(calls) = Len(Ladder(pair_lock))

\* C7 witness: a pair that started with a lock went through the whole ladder
C7_Witness ==
    /\ PairSeen
    /\ pair_lock # NoneDict
    /\ Len(calls) = 2 + Len(cookie_sources)
    /\ pair_status = "failed"

\* the position in the sweep of the candidate executed last
SweepIndex == Len(calls) - (IF pair_lock # NoneDict THEN 2 ELSE 1)

\* the latest executor call failed (and was not taken for a cancellation)
LastFailed == ~LastResult.ok /\ ~IsCancelled(LastResult)

\* C8: a sweep candidate failing PermanentUnavailable or Network ends the
\* sweep and the pair fails; one failing Unknown is followed by the next
\* candidate; after the last candidate the pair fails, and the error
\* reported is that of the last candidate executed (the text "unknown error"
\* standing for an empty one).
C8_SweepFailures ==
    (last_op = "sweep" /\ LastFailed) =>
        IF classify(LastResult.error) # "Unknown"
          THEN /\ pc # "sweep"
               /\ pair_status = "failed"
               /\ url_failed
               /\ reported = LastResult.error
          ELSE IF SweepIndex < Len(SweepCandidates)
                 THEN /\ pc = "sweep"
                      /\ pair_status = "running"
                      /\ ai = SweepIndex + 1
                      /\ last_err = LastResult.error
                 ELSE /\ pc # "sweep"
                      /\ pair_status = "failed"
                      /\ url_failed
                      /\ reported = Or(LastResult.error, "unknown error")

\* C8 witness: the second of seven candidates failed with a network error
C8_Witness ==
    /\ last_op = "sweep"
    /\ LastFailed
    /\ classify(LastResult.error) = "Network"
    /\ SweepIndex = 2
    /\ Len(SweepCandidates) = Len(cookie_sources)
    /\ pair_status = "failed"

\* C9: in the locked-credential state a PermanentUnavailable or Network
\* failure fails the pair without a sweep, an Unknown failure starts the
\* sweep at its first candidate, and a success ends the pair without a sweep.
C9_LockedOutcomes ==
    (last_op = "locked" /\ ~IsCancelled(LastResult)) =>
        /\ Len(calls) = 2
        /\ IF LastResult.ok
             THEN /\ pair_status = "ok"
                  /\ pc # "sweep"
                  /\ chosen_cookie_base = pair_lock
             ELSE IF classify(LastResult.error) # "Unknown"
                    THEN /\ pair_status = "failed"
                         /\ pc # "sweep"
                         /\ url_failed
                         /\ reported = LastResult.error
                    ELSE /\ pair_status = "running"
                         /\ pc = "sweep"
                         /\ ai = 1
                         /\ attempts = SweepCandidates

\* C9 witness: the locked credential failed with a permanent error
C9_Witness ==
    /\ last_op = "locked"
    /\ LastFailed
    /\ classify(LastResult.error) = "PermanentUnavailable"
    /\ pair_status = "failed"
    /\ Len(calls) = 2

\* an attempt returns and the for loop over the URL's exports ends
UrlEnds == pc \in {"nocookies", "locked", "sweep"} /\ pc' \in {"check", "input"}

\* an attempt returns and the URL's next export starts
ExportEnds == pc \in {"nocookies", "locked", "sweep"} /\ pc' = "nocookies"

\* C10: when a URL's exports end, every export has a result (a failed one
\* did not stop the others), the URL is appended to fail_urls if some export
\* failed and to ok_urls if none did, and to nothing else; between two
\* exports of a URL no bucket changes.
C10_UrlBucket ==
    [][ /\ UrlEnds =>
            /\ Len(pair_results') = Len(last_exports)
            /\ invalid_urls' = invalid_urls
            /\ IF \E i \in 1..Len(pair_results') : pair_results'[i] = "failed"
                 THEN /\ fail_urls' = Append(fail_urls, urls[idx])
                      /\ ok_urls' = ok_urls
                 ELSE /\ ok_urls' = Append(ok_urls, urls[idx])
                      /\ fail_urls' = fail_urls
        /\ ExportEnds =>
            /\ Len(pair_results') = ei
            /\ ei' = ei + 1
            /\ <<ok_urls, fail_urls, invalid_urls>>' =
                   <<ok_urls, fail_urls, invalid_urls>> ]_vars

\* C10 witness: a URL whose first export failed and whose second succeeded is
\* in fail_urls
C10_Witness ==
    /\ UrlDone
    /\ pair_results = <<"failed", "ok">>
    /\ fail_urls # <<>>
    /\ fail_urls[Len(fail_urls)] = BucketedUrl

\* the latest pre-check rejected its URL
PreCheckFailed == verdict # NoneDict /\ ~verdict.ok_url

\* C11: the step in which a URL fails the pre-check appends (url, reason) to
\* invalid_urls, leaves ok_urls and fail_urls as they are and goes to the next
\* URL or to the summary with no executor call made for the URL; every
\* executor call is for a URL that passed the pre-check.
C11_InvalidUrlNeverAttempted ==
    [][ /\ (pc = "check" /\ PreCheckFailed') =>
              /\ invalid_urls' = Append(invalid_urls, <<urls[idx], verdict'.why>>)
              /\ ok_urls' = ok_urls
              /\ fail_urls' = fail_urls
              /\ pc' \in {"check", "input"}
              /\ calls' = <<>>
              /\ eng' = NoneDict
              /\ pair_status' = "none"
              /\ pair_results' = <<>>
        /\ pc \in {"nocookies", "locked", "sweep"} =>
              /\ ~PreCheckFailed
              /\ verdict' = verdict ]_vars

\* C11 witness: the second URL of a batch failed the pre-check after the first
\* was downloaded, and the batch went on to its summary
C11_Witness ==
    /\ PreCheckFailed
    /\ last_op = "check"
    /\ Len(ok_urls) = 1
    /\ invalid_urls = << <<urls[2], verdict.why>> >>
    /\ printed_summary # NoneDict

\* a batch is running: main is inside the for loop over urls
BatchRunning == pc \in {"check", "nocookies", "locked", "sweep"}

\* the URLs of the batch that have been bucketed: all of them at the summary,
\* those before the current one while the batch runs
Processed ==
    IF printed_summary # NoneDict THEN Len(urls)
    ELSE IF BatchRunning THEN idx - 1
    ELSE 0

\* the buckets a URL may end in
BucketNames == {"ok", "failed", "invalid"}

\* the URLs at the positions that f sends to bucket b, in input order
RECURSIVE Pick(_, _, _)
Pick(f, b, n) ==
    IF n = 0 THEN <<>>
    ELSE IF f[n] = b THEN Append(Pick(f, b, n - 1), urls[n])
    ELSE Pick(f, b, n - 1)

\* the URLs of the invalid bucket, without their reasons
InvalidUrlsOnly == [ i \in 1..Len(invalid_urls) |-> invalid_urls[i][1] ]

\* every processed position of the URL list is in exactly one bucket, and
\* each bucket lists its URLs in input order
Partitioned ==
    \E f \in [1..Processed -> BucketNames] :
        /\ ok_urls = Pick(f, "ok", Processed)
        /\ fail_urls = Pick(f, "failed", Processed)
        /\ InvalidUrlsOnly = Pick(f, "invalid", Processed)

\* the summary's counts add up to the number of URLs of the batch
SummaryAddsUp ==
    printed_summary # NoneDict =>
        /\ printed_summary.total = Len(urls)
        /\ printed_summary.ok = ok_urls
        /\ printed_summary.failed = fail_urls
        /\ printed_summary.invalid = invalid_urls
        /\ Len(printed_summary.ok) + Len(printed_summary.failed)
              + Len(printed_summary.invalid) = printed_summary.total

\* how far the batch has come: the URL, the export of the URL, the rung of
\* the export's ladder (pre-check, no-cookies, locked, k-th sweep candidate)
Progress ==
    << idx,
       IF pc = "check" THEN 0 ELSE ei,
       IF pc = "check" THEN 0
       ELSE IF pc = "nocookies" THEN 1
       ELSE IF pc = "locked" THEN 2
       ELSE 2 + ai >>

\* lexicographic order on triples
LexLess(a, b) ==
    \/ a[1] < b[1]
    \/ a[1] = b[1] /\ a[2] < b[2]
    \/ a[1] = b[1] /\ a[2] = b[2] /\ a[3] < b[3]

\* main is blocked in a call it can make: the URL, the export, the locked
\* base and the sweep candidate the call is for exist
CallPending ==
    /\ idx \in 1..Len(urls)
    /\ pc # "check" => ei \in 1..Len(last_exports)
    /\ pc = "locked" => chosen_cookie_base # NoneDict
    /\ pc = "sweep" => (attempts = SweepCandidates /\ ai \in 1..Len(attempts))

\* C12: while a batch runs and at its summary, the URLs processed so far are
\* partitioned over the ok, failed and invalid buckets in input order, the
\* URLs are taken in order (those before the current one are the bucketed
\* ones) and the summary's three counts add up to the number of URLs.  The
\* batch reaches its summary unless an executor call returns the
\* cancellation outcome: a running batch is always blocked in a call it can
\* make, and every return either ends the batch in its summary, or aborts it on
\* the cancellation outcome, or moves it strictly forward in the bounded
\* order (URL, export, rung), whatever the attempt's outcome was.
C12_BatchReachesSummary ==
    /\ []((BatchRunning \/ printed_summary # NoneDict) => Partitioned)
    /\ []SummaryAddsUp
    /\ [](BatchRunning =>
            /\ Bucketed = idx - 1
            /\ idx \in 1..Len(urls)
            /\ Progress[2] <= Len(last_exports)
            /\ Progress[3] <= 2 + Len(cookie_sources)
            /\ CallPending)
    /\ [][ BatchRunning =>
              \/ BatchRunning' /\ LexLess(Progress, Progress')
              \/ printed_summary' # NoneDict /\ pc' = "input"
              \/ ciao' /\ IsCancelled(run_download(eng')) ]_vars

\* C12 witness: the summary of a batch whose first URL failed and whose second
\* URL was then downloaded
C12_Witness ==
    /\ printed_summary # NoneDict
    /\ printed_summary.total = 2
    /\ printed_summary.failed = <<urls[1]>>
    /\ printed_summary.ok = <<urls[2]>>
    /\ printed_summary.invalid = <<>>

\* a call of run_download has returned
Executed == eng # NoneDict /\ r0 # NoneDict

\* the paths the engine named that exist on disk after the call
ExistingOutputs ==
    { c \in eng.candidates : c \notin {NoneStr, ""} /\ c \in eng.on_disk }

\* C13: run_download returns ok only when the engine returned a dict and one
\* of the output paths it names exists on disk; when the engine returned
\* without raising and either gave no dict or named no path that exists, the
\* result is a failure with a non-empty error text.
C13_OkOnlyWithOutput ==
    Executed =>
        /\ r0.ok => /\ eng.raised = "none"
                    /\ eng.info_dict
                    /\ ExistingOutputs # {}
                    /\ r0.error = NoneStr
        /\ (eng.raised = "none" /\ (~eng.info_dict \/ ExistingOutputs = {})) =>
              /\ ~r0.ok
              /\ r0.error \notin {NoneStr, ""}

\* C13 witness: the engine returned a dict naming a path, a different file is
\* on disk, nothing was logged, and the call is reported as failed
C13_Witness ==
    /\ Executed
    /\ eng.raised = "none"
    /\ eng.info_dict
    /\ eng.candidates = {"out.mp4"}
    /\ eng.on_disk = {"tmp.part"}
    /\ eng.logged = <<>>
    /\ r0 = DownloadResult(FALSE, MSG_NO_OUTPUT)

\* the step main() took last was the return of an executor call
AttemptReturned == last_op \in {"nocookies", "locked", "sweep"}

\* main() took the latest executor call for a cancellation and left the batch
BatchAborted == AttemptReturned /\ ciao /\ pc = "exited"

\* C14: after an executor call has returned, the batch is aborted if and only
\* if the call was interrupted by the user, whatever error text an engine
\* failure carries.
C14_AbortIffInterrupted ==
    AttemptReturned => (BatchAborted <=> CallInterrupted)

\* C14 failing case: the engine returned without a dict and was not
\* interrupted, the text it logged is the one run_download gives an
\* interrupted call, and main() has left the batch through its
\* KeyboardInterrupt handler with a URL still to process
C14_Witness ==
    /\ BatchAborted
    /\ ~CallInterrupted
    /\ eng.raised = "none"
    /\ eng.logged = <<CANCELLED>>
    /\ run_download(eng) = DownloadResult(FALSE, CANCELLED)
    /\ idx < Len(urls)
    /\ printed_summary = NoneDict

\* what the scenario prescribes for a pre-check or an executor call: a
\* succeeds without credentials, b fails PermanentUnavailable without
\* credentials, c fails Unknown without credentials and with the sweep's
\* first candidate and succeeds with its second; every URL passes the
\* pre-check; "any" where the scenario says nothing
Prescribed(url, mode) ==
    IF mode = <<"check">> THEN "valid"
    ELSE IF url = "u/a" /\ mode = <<"none">> THEN "ok"
    ELSE IF url = "u/b" /\ mode = <<"none">> THEN "PermanentUnavailable"
    ELSE IF url = "u/c" /\ mode = <<"none">> THEN "Unknown"
    ELSE IF url = "u/c" /\ mode = SweepCandidates[1].mode THEN "Unknown"
    ELSE IF url = "u/c" /\ mode = SweepCandidates[2].mode THEN "ok"
    ELSE "any"

\* every recorded step ended as the scenario prescribes
FollowsScenario ==
    \A i \in 1..Len(history) :
        Prescribed(history[i].url, history[i].mode) \in {"any", history[i].result}

\* the steps the scenario is expected to take: 1 executor call for a, 1 for
\* b, 3 for c
ExpectedHistory ==
    << [url |-> "u/a", mode |-> <<"check">>, result |-> "valid"],
       [url |-> "u/a", mode |-> <<"none">>, result |-> "ok"],
       [url |-> "u/b", mode |-> <<"check">>, result |-> "valid"],
       [url |-> "u/b", mode |-> <<"none">>, result |-> "PermanentUnavailable"],
       [url |-> "u/c", mode |-> <<"check">>, result |-> "valid"],
       [url |-> "u/c", mode |-> <<"none">>, result |-> "Unknown"],
       [url |-> "u/c", mode |-> <<"browser", "firefox">>, result |-> "Unknown"],
       [url |-> "u/c", mode |-> <<"browser", "chromium">>, result |-> "ok"] >>

\* C15: a run of the batch [a, b, c] with format mp4, no cookies.txt and no
\* lock, in which every step ends as the scenario prescribes, takes the
\* expected steps and no others (1 executor call for a, 1 for b, 3 for c: no
\* credentials, firefox, chromium), is never aborted, and at its summary has
\* the sweep's second candidate locked, ok = [a, c], failed = [b] and
\* invalid = [].
C15_Scenario ==
    FollowsScenario =>
        /\ Len(history) <= Len(ExpectedHistory)
        /\ history = SubSeq(ExpectedHistory, 1, Len(history))
        /\ pc # "exited"
        /\ Len(history) = Len(ExpectedHistory) =>
              /\ pc = "input"
              /\ chosen_cookie_mode = SweepCandidates[2].mode
              /\ chosen_cookie_base = SweepCandidates[2].base
              /\ Len(calls) = 3
              /\ printed_summary =
                    [ ok |-> <<"u/a", "u/c">>, failed |-> <<"u/b">>,
                      invalid |-> <<>>, total |-> 3 ]
        /\ Len(history) < Len(ExpectedHistory) => BatchRunning

\* C15 witness: the scenario has run to its summary
C15_Witness ==
    /\ FollowsScenario
    /\ history = ExpectedHistory
    /\ printed_summary # NoneDict
    /\ chosen_cookie_mode = <<"browser", "chromium">>

\* the browser sources the claim lists, in its order
ClaimedBrowsers ==
    << "firefox", "chromium", "chrome", "brave", "edge", "opera", "vivaldi" >>

\* C16: the candidates of a sweep are, when cookies.txt exists, the cookie
\* file alone (no browser source); otherwise the browser sources firefox,
\* chromium, chrome, brave, edge, opera, vivaldi, in that order, none with
\* the cookie file; no candidate, as built or as specialised to the format
\* of the pair, is the no-credentials mode.
C16_SweepCandidatesFixed ==
    pc = "sweep" =>
        /\ IF cookie_exists
             THEN /\ Len(attempts) = 1
                  /\ attempts[1].mode = <<"cookiefile">>
                  /\ attempts[1].base.cookiefile = "cookies.txt"
                  /\ attempts[1].base.cookiesfrombrowser = Absent
             ELSE /\ Len(attempts) = Len(ClaimedBrowsers)
                  /\ \A i \in 1..Len(attempts) :
                        /\ attempts[i].mode = <<"browser", ClaimedBrowsers[i]>>
                        /\ attempts[i].base.cookiesfrombrowser = ClaimedBrowsers[i]
                        /\ attempts[i].base.cookiefile = Absent
        /\ \A i \in 1..Len(attempts) :
              /\ attempts[i].mode # <<"none">>
              /\ ModeOf(attempts[i].base) = attempts[i].mode
              /\ ModeOf(build_opts_for_format(attempts[i].base, last_exports[ei]))
                    = attempts[i].mode

\* C16 witness: with cookies.txt present, the locked cookie file failed and
\* the sweep is about to try its only candidate
C16_Witness ==
    /\ pc = "sweep"
    /\ cookie_exists
    /\ pair_lock # NoneDict
    /\ Len(calls) = 2
    /\ ai = 1
    /\ Len(attempts) = 1

\* the directory that path denotes is the base directory or lies below it
InsideBase(path) ==
    LET d == Denotes(path)
    IN  /\ Len(d) >= Len(DownloadsBase)
        /\ SubSeq(d, 1, Len(DownloadsBase)) = DownloadsBase

\* C17: whatever is typed at the folder prompt, the directory
\* resolve_output_dir returns and every directory it creates lie inside the
\* base directory; an absolute path raises, with nothing returned and nothing
\* created.
C17_OutputDirConfined ==
    resolved # NoneDict =>
        /\ resolved.input.is_absolute =>
              /\ resolved.result.raised
              /\ resolved.result.out_dir = NoneSeq
              /\ resolved.result.created = {}
        /\ ~resolved.result.raised =>
              /\ InsideBase(resolved.result.out_dir)
              /\ \A d \in resolved.result.created : InsideBase(d)

\* C17 failing case: the relative path ../x is accepted and the directory
\* returned and created is home/x, beside the base directory
C17_Witness ==
    /\ resolved # NoneDict
    /\ resolved.input = [is_absolute |-> FALSE, parts |-> <<"..", "x">>]
    /\ ~resolved.result.raised
    /\ resolved.result.out_dir = <<"home", "Downloads", "..", "x">>
    /\ Denotes(resolved.result.out_dir) = <<"home", "x">>
    /\ ~InsideBase(resolved.result.out_dir)

\* C18: the folder prompt and the format prompt are issued only for a batch
\* before which no batch has started since the start of main() or since the
\* latest reset, and for such a batch both are issued, the folder first;
\* every other batch starts straight from its input with the folder and the
\* formats it found.  The two sticky values change only when their prompt is
\* answered or on a reset.  A reset clears both, makes no executor call,
\* touches no bucket and leaves main() waiting for the next input.
C18_StickyPrompts ==
    [][ /\ (pc' = "outdir" /\ pc # "outdir") =>
              (pc = "input" /\ fresh /\ last_out_dir = NoneSeq)
        /\ (pc' = "formats" /\ pc # "formats") =>
              (pc = "outdir" /\ fresh /\ last_exports = NoneSeq)
        /\ (pc \in {"input", "outdir", "formats"} /\ pc' = "check") =>
              /\ ~fresh'
              /\ fresh => pc = "formats"
              /\ ~fresh => /\ pc = "input"
                           /\ last_out_dir' = last_out_dir
                           /\ last_exports' = last_exports
                           /\ last_out_dir # NoneSeq
                           /\ last_exports # NoneSeq
        /\ last_out_dir' # last_out_dir =>
              \/ pc = "outdir" /\ last_out_dir = NoneSeq
              \/ last_op' = "reset"
        /\ last_exports' # last_exports =>
              \/ pc = "formats" /\ last_exports = NoneSeq
              \/ last_op' = "reset"
        /\ (pc = "input" /\ last_op' = "reset") =>
              /\ last_out_dir' = NoneSeq
              /\ last_exports' = NoneSeq
              /\ fresh'
              /\ pc' = "input"
              /\ eng' = NoneDict
              /\ calls' = <<>>
              /\ <<ok_urls, fail_urls, invalid_urls>>' = << <<>>, <<>>, <<>> >>
      ]_vars

\* C18 witness: a batch starts straight from its input, with the folder and
\* the two formats an earlier batch was given
C18_Witness ==
    /\ BatchStarts
    /\ last_op = "input"
    /\ ~fresh
    /\ last_out_dir = <<"home", "Downloads", "music">>
    /\ last_exports = <<"mp3", "mkv">>

\* the step is the return of a sweep candidate's call that succeeded
SweepSucceeds ==
    /\ pc = "sweep"
    /\ run_download(eng').ok
    /\ ~IsCancelled(run_download(eng'))

\* C19: of the steps of a running batch (a pre-check, the return of a
\* no-credentials, locked or sweep call), only the return of a sweep call
\* that succeeded changes the locked credential: successes and failures of
\* the no-credentials and locked attempts, failed sweep candidates,
\* cancellations and invalid URLs leave its mode and its base as they were.
C19_LockChangedOnlyBySweepSuccess ==
    [][ (BatchRunning /\ ~SweepSucceeds) =>
            /\ chosen_cookie_mode' = chosen_cookie_mode
            /\ chosen_cookie_base' = chosen_cookie_base ]_vars

\* C19 witness: the locked attempt failed PermanentUnavailable and the lock
\* is still the one the pair started with
C19_Witness ==
    /\ last_op = "locked"
    /\ LastFailed
    /\ pair_status = "failed"
    /\ pair_lock # NoneDict
    /\ chosen_cookie_base = pair_lock
    /\ chosen_cookie_mode = ModeOf(pair_lock)

\* the last text the engine passed to logger.error during the latest call
\* (NoneStr: it passed none)
LastLogged ==
    IF eng.logged = <<>> THEN NoneStr ELSE eng.logged[Len(eng.logged)]

\* the text run_download falls back on: str(e) of the exception, or the
\* literal of the failing branch
Fallback ==
    IF eng.raised # "none" THEN eng.exc_str
    ELSE IF ~eng.info_dict THEN MSG_NO_INFO
    ELSE MSG_NO_OUTPUT

\* C20: when a call fails (the engine raised, returned no dict, or named no
\* file that exists) and was not interrupted, the error returned is the last
\* text the engine logged during that call when that is a message (not
\* empty), and otherwise the exception string or the branch's literal; what
\* the logger of the call before held plays no part, and the call's logger
\* holds nothing but what this call logged.
C20_LastLoggedErrorPreferred ==
    (Executed /\ ~r0.ok /\ eng.raised # "KeyboardInterrupt") =>
        /\ r0.error = (IF LastLogged \notin {NoneStr, ""} THEN LastLogged
                       ELSE Fallback)
        /\ logger = LastLogged

\* C20 witness: the call before ended with a logged message; the latest call
\* raised with nothing logged and its error is the exception's string
C20_Witness ==
    /\ Executed
    /\ stale = TXT_AUTH
    /\ eng.raised = "DownloadError"
    /\ eng.logged = <<>>
    /\ eng.exc_str = TXT_PERMANENT
    /\ r0 = DownloadResult(FALSE, TXT_PERMANENT)
    /\ logger = NoneStr

\* the merge container the claim gives a format: the format itself for mp4,
\* mkv and mov, none for mp3, mp4 for any other
ClaimedContainer(ext) ==
    IF ext = "mp3" THEN Absent
    ELSE IF ext \in {"mp4", "mkv", "mov"} THEN ext
    ELSE "mp4"

\* C21: the options build_opts_for_format returns have exactly one of the
\* two policies: for mp3 the audio-extraction postprocessor and no merge
\* container; for mp4, mkv, mov and any other format a merge container (the
\* format, mp4 for an unrecognised one) and no postprocessor; whatever the
\* base, a locked one and one an earlier call specialised to another format
\* included.  Nothing else of the base changes but format and the extension
\* slot of outtmpl.
C21_OnePolicyPerFormat ==
    built # NoneDict =>
        /\ (built.opts.postprocessors # Absent)
              # (built.opts.merge_output_format # Absent)
        /\ built.opts.merge_output_format = ClaimedContainer(built.ext)
        /\ built.opts.postprocessors =
              (IF built.ext = "mp3" THEN "FFmpegExtractAudio" ELSE Absent)
        /\ built.opts.cookiefile = built.base.cookiefile
        /\ built.opts.cookiesfrombrowser = built.base.cookiesfrombrowser
        /\ built.opts.outtmpl.dir = built.base.outtmpl.dir

\* C21 witness: a base with a browser credential that an earlier call had
\* specialised to mkv is specialised to mp3
C21_Witness ==
    /\ built # NoneDict
    /\ built.base.cookiesfrombrowser = "chrome"
    /\ built.base.merge_output_format = "mkv"
    /\ built.base.postprocessors = Absent
    /\ built.ext = "mp3"
    /\ built.opts.merge_output_format = Absent
    /\ built.opts.postprocessors = "FFmpegExtractAudio"

\* the pair's calls made before its sweep: no-cookies, and the locked
\* attempt if a lock was set when the pair started
BeforeSweep == IF pair_lock # NoneDict THEN 2 ELSE 1

\* C22: the executor is called at most 2 + N times for a pair, N the number
\* of sweep candidates: the no-credentials call, the locked credential at
\* most once before the sweep, then the sweep's candidates from the first, in
\* order, each once, so that the locked source is executed again at its
\* place in the sweep; and a batch of u URLs and f formats has made at most
\* u * f * (2 + N) calls.
C22_CallsBounded ==
    /\ executed <= Len(urls) * Len(last_exports) * (2 + Len(SweepCandidates))
    /\ Len(calls) <= executed
    /\ PairSeen =>
          /\ Len(calls) <= 2 + Len(SweepCandidates)
          /\ Len(calls) <= BeforeSweep + Len(SweepCandidates)
          /\ ModeOf(calls[1]) = <<"none">>
          /\ (pair_lock # NoneDict /\ Len(calls) >= 2) =>
                calls[2] = build_opts_for_format(pair_lock, PairExt)
          /\ \A i \in 1..Len(calls) :
                i > BeforeSweep =>
                  calls[i] = build_opts_for_format(
                                 SweepCandidates[i - BeforeSweep].base, PairExt)
          /\ \A j \in 1..Len(SweepCandidates) :
                (pair_lock = SweepCandidates[j].base /\ Len(calls) >= 2 + j) =>
                    calls[2 + j] = calls[2]

\* C22 witness: in the last pair of a batch of two URLs, the locked source
\* chrome failed before the sweep and again as the sweep's third candidate,
\* and the sweep went on to its last candidate: 2 + 7 calls for the pair
C22_Witness ==
    /\ Len(urls) >= 2
    /\ idx = Len(urls)
    /\ pair_lock # NoneDict
    /\ pair_lock.cookiesfrombrowser = "chrome"
    /\ Len(calls) = 2 + Len(cookie_sources)
    /\ calls[5] = calls[2]
    /\ pair_status = "failed"
    /\ executed > 2 * (2 + Len(cookie_sources))

\* the locked credential as a sweep candidate
Locked == [mode |-> chosen_cookie_mode, base |-> chosen_cookie_base]

\* C23: while a batch runs and after it, the locked credential is set
\* exactly when a sweep call of the batch has succeeded: once set it stays
\* set, however many locked attempts have failed since; it differs from the
\* one the pair started with only when the pair ended with the success of a
\* sweep call made with it; and it is always one of the sweep's candidates,
\* mode and base, never the no-credentials mode.
C23_LockNeverCleared ==
    /\ (locks_set > 0) = (chosen_cookie_base # NoneDict)
    /\ (chosen_cookie_base = NoneDict) = (chosen_cookie_mode = NoneSeq)
    /\ locked_failures > 0 => chosen_cookie_base # NoneDict
    /\ chosen_cookie_base # NoneDict =>
          /\ \E i \in 1..Len(SweepCandidates) : SweepCandidates[i] = Locked
          /\ chosen_cookie_mode # <<"none">>
          /\ ModeOf(chosen_cookie_base) = chosen_cookie_mode
    /\ (PairSeen /\ chosen_cookie_base # pair_lock) =>
          /\ pair_status = "ok"
          /\ LastResult.ok
          /\ Len(calls) > BeforeSweep
          /\ calls[Len(calls)] = build_opts_for_format(chosen_cookie_base, PairExt)

\* C23 witness: the locked attempt has failed for three pairs of the batch
\* and the credential locked by the one sweep success is still locked
C23_Witness ==
    /\ locks_set = 1
    /\ locked_failures = 3
    /\ chosen_cookie_base # NoneDict
    /\ chosen_cookie_mode = <<"browser", "chromium">>

====
